---- MODULE Spec2Model ----
(***************************************************************************)
(* Metadata sidecar subsystem of the VFS: the POSIX sidecar store          *)
(* (vfs/posixmeta_sidecar.go) and the generic sidecar store                *)
(* (vfs/metadata_sidecar.go) over the file primitives of the VFS, the mode *)
(* codec, and the attribute queries and mutations of the NFS front-end     *)
(* (cmd/serve/nfs/filesystem.go) and the mount front-end                   *)
(* (cmd/mount/file.go).                                                    *)
(*                                                                         *)
(* A path is a sequence of tokens and a string the sequence of its         *)
(* characters; concatenating strings is concatenating sequences, and a     *)
(* suffix test compares the trailing tokens.  A file's payload is "empty"  *)
(* (zero bytes), "bad" (bytes that are not a JSON object) or "json" with   *)
(* the object's key/value pairs.  Save and Rename of the POSIX store take  *)
(* one step per VFS primitive and run in one of the slots of Procs, so     *)
(* other requests can interleave between their primitives; an operation of *)
(* one primitive is one step.  A front-end mutation changes the live       *)
(* object in the step that starts the store operation it calls, and        *)
(* returns in the step in which that operation returns.                    *)
(***************************************************************************)
EXTENDS Integers, Sequences, FiniteSets, TLC

VARIABLES Ext, fs, wloc, call, ret, rmFailed, nops, nfaults, saved,
          live, req, out, enc, before

vars == <<Ext, fs, wloc, call, ret, rmFailed, nops, nfaults, saved,
          live, req, out, enc, before>>

\* ------------------------------------------------------------------ bounds

\* Store operations started in one behaviour.
MaxOps == 2

\* VFS primitives that fail with an I/O error in one behaviour.
MaxFaults == 2

\* The largest permission value given to the mode codec.
MaxPerm == 4095

Procs == {1, 2}

\* ------------------------------------------------------------------ paths

DefaultExt == <<".posixmeta">>

TmpSuffix == <<".tmp">>

\* Values of the PosixMetadataExtension option.
Exts == {<< >>, <<".posixmeta">>}

\* The extension the generic store is constructed with.
GenericExt == <<".meta">>

\* Paths the front-ends pass to the stores.
ArgPaths == {<<"a">>, <<"b">>, <<"a", ".posixmeta">>}

GenericArgPaths == {<<"a", "/">>, <<"b">>}

HasSuffix(p, s) ==
    /\ Len(p) >= Len(s)
    /\ SubSeq(p, Len(p) - Len(s) + 1, Len(p)) = s

TrimSuffix(p, s) ==
    IF HasSuffix(p, s) THEN SubSeq(p, 1, Len(p) - Len(s)) ELSE p

\* A guard that compares the whole path with the extension.
IsSidecarPathExact(ext, p) == ext # << >> /\ p = ext

IsSidecarPathExt(ext, p) ==
    IF ext = << >> THEN FALSE ELSE HasSuffix(p, ext)

IsSidecarPath(p) == IsSidecarPathExt(Ext, p)

metaPathExt(ext, p) ==
    LET e == IF ext = << >> THEN DefaultExt ELSE ext
    IN  p \o e

metaPath(p) == metaPathExt(Ext, p)

\* A Save that writes in place of the sidecar.
tmpPathInPlace(p) == metaPath(p)

tmpPath(p) == metaPath(p) \o TmpSuffix

name(p) == TrimSuffix(p, <<"/">>) \o GenericExt

\* ---------------------------------------------------------------- records

Fields == {"mode", "uid", "gid", "mtime", "atime", "btime"}

\* A string is the sequence of its characters; a nil *string is no string.
Nil == <<"nil">>

EmptyRec == [f \in Fields |-> Nil]

OnlyField(f, v) == [g \in Fields |-> IF g = f THEN v ELSE Nil]

\* Partial records the front-ends save.
InRecs ==
    { EmptyRec,
      [f \in Fields |-> CASE f = "mode" -> <<"1", "0", "0", "6", "0", "0">>
                          [] f \in {"gid", "atime"} -> <<"1">>
                          [] OTHER -> Nil],
      [f \in Fields |-> CASE f = "uid" -> <<"1", "0", "0", "0">>
                          [] f \in {"mtime", "btime"} -> <<"2">>
                          [] OTHER -> Nil] }

PosixAnyFieldSet(m) == \E f \in Fields : m[f] # Nil

\* json.Marshal of a PosixMeta: omitempty drops the nil fields.
Marshal(m) ==
    [kind |-> "json", obj |-> {<<f, m[f]>> : f \in {g \in Fields : m[g] # Nil}}]

\* json.Unmarshal into a PosixMeta: a key that is missing leaves the field nil.
Unmarshal(b) ==
    [f \in Fields |->
        IF \E kv \in b.obj : kv[1] = f
        THEN (CHOOSE kv \in b.obj : kv[1] = f)[2]
        ELSE Nil]

EmptyBytes == [kind |-> "empty", obj |-> {}]

BadBytes == [kind |-> "bad", obj |-> {}]

\* -------------------------------------------------------------------- codec

Digits == <<"0", "1", "2", "3", "4", "5", "6", "7", "8", "9">>

IsDigit(c, base) == \E d \in 1..base : Digits[d] = c

DigitVal(c) == (CHOOSE d \in 1..10 : Digits[d] = c) - 1

\* strconv.FormatUint of a value below 2^31.
RECURSIVE FormatUint(_, _)
FormatUint(n, base) ==
    IF n < base THEN <<Digits[n + 1]>>
    ELSE FormatUint(n \div base, base) \o <<Digits[(n % base) + 1]>>

RECURSIVE PadLeft(_, _)
PadLeft(s, n) == IF Len(s) >= n THEN s ELSE PadLeft(<<"0">> \o s, n)

RECURSIVE TrimZeros(_)
TrimZeros(s) == IF Len(s) > 1 /\ s[1] = "0" THEN TrimZeros(Tail(s)) ELSE s

\* The number a string of digits denotes, for a number below 2^31.
RECURSIVE Val(_, _)
Val(s, base) ==
    IF s = << >> THEN 0
    ELSE Val(SubSeq(s, 1, Len(s) - 1), base) * base + DigitVal(s[Len(s)])

\* An os.FileMode, a uint32, is [hi: its two top bits, lo: its 30 low bits]:
\* hi = 2 is os.ModeDir (1<<31), hi = 1 is os.ModeAppend (1<<30).
FileMode(hi, lo) == [hi |-> hi, lo |-> lo]

\* The file-type nibble of a POSIX mode, and its two values.
TypeMask == 61440

S_IFDIR == 16384

S_IFREG == 32768

\* mode &^ 0xF000: the mask is the four bits above the twelve low ones.
ClearType(lo) ==
    LET unit == TypeMask \div 15
    IN  lo - ((lo \div unit) % 16) * unit

\* strconv.FormatUint(uint64(mode), 8) of a uint32: ten octal digits hold the
\* 30 low bits.
FormatOctal(v) ==
    IF v.hi = 0 THEN FormatUint(v.lo, 8)
    ELSE FormatUint(v.hi, 8) \o PadLeft(FormatUint(v.lo, 8), 10)

\* A FormatPosixMode that writes the permission bits alone.
FormatPosixModePermOnly(m, isDir) == FormatOctal(FileMode(m.hi, ClearType(m.lo)))

FormatPosixMode(m, isDir) ==
    FormatOctal(FileMode(m.hi, ClearType(m.lo) + (IF isDir THEN S_IFDIR ELSE S_IFREG)))

\* strconv.ParseUint(s, 8, 32): digits 0..7 only, at least one, below 2^32.
ParseOctal(s) ==
    LET t == TrimZeros(s)
    IN  IF s = << >> \/ (\E i \in 1..Len(s) : ~IsDigit(s[i], 8)) THEN [ok |-> FALSE, v |-> FileMode(0, 0)]
        ELSE IF Len(t) <= 10 THEN [ok |-> TRUE, v |-> FileMode(0, Val(t, 8))]
        ELSE IF Len(t) = 11 /\ DigitVal(t[1]) <= 3
               THEN [ok |-> TRUE, v |-> FileMode(DigitVal(t[1]), Val(Tail(t), 8))]
        ELSE [ok |-> FALSE, v |-> FileMode(0, 0)]

ParsePosixMode(s) == IF ParseOctal(s).ok THEN ParseOctal(s).v ELSE FileMode(0, 0)

\* A uint32 uid or gid is the sequence of its decimal digits, without leading
\* zeros.  strconv.ParseUint(s, 10, 32): digits only, at least one, at most
\* 4294967295.
ParseDecimal(s) ==
    LET t == TrimZeros(s)
        inRange == \/ Len(t) <= 9
                   \/ /\ Len(t) = 10
                      /\ \/ Val(SubSeq(t, 1, 9), 10) < 429496729
                         \/ Val(SubSeq(t, 1, 9), 10) = 429496729 /\ DigitVal(t[10]) <= 5
    IN  IF s = << >> \/ (\E i \in 1..Len(s) : ~IsDigit(s[i], 10)) THEN [ok |-> FALSE, v |-> <<"0">>]
        ELSE IF inRange THEN [ok |-> TRUE, v |-> t]
        ELSE [ok |-> FALSE, v |-> <<"0">>]

\* strconv.FormatUint(uint64(n), 10) of a Go int n: a negative n wraps to
\* 2^64 + n (n of at most four digits).
FormatUint64(n) ==
    IF n >= 0 THEN FormatUint(n, 10)
    ELSE <<"1", "8", "4", "4", "6", "7", "4", "4", "0", "7", "3", "7", "0", "9", "5", "5">>
           \o PadLeft(FormatUint(1616 + n, 10), 4)

\* A time.Time is its count of whole seconds since the zero time (RFC3339
\* carries no fraction of a second).
ZeroTime == 0

\* t.UTC().Format(time.RFC3339): whole seconds; the date and time of day are
\* written here as the count of seconds between "T" and "Z".
FormatTime(t) == <<"T">> \o FormatUint(t, 10) \o <<"Z">>

ParsePosixTime(s) ==
    IF /\ Len(s) >= 3 /\ s[1] = "T" /\ s[Len(s)] = "Z"
       /\ \A i \in 2..(Len(s) - 1) : IsDigit(s[i], 10)
       /\ Len(s) <= 11
      THEN Val(SubSeq(s, 2, Len(s) - 1), 10)
      ELSE ZeroTime

\* ------------------------------------------------------- the VFS primitives

Exists(f, p) == p \in DOMAIN f

NoHandle == << >>

Orphan == <<"?">>

Put(f, p, b) == [q \in DOMAIN f \cup {p} |-> IF q = p THEN b ELSE f[q]]

Drop(f, p) == [q \in DOMAIN f \ {p} |-> f[q]]

Faulty == nfaults < MaxFaults

\* VFS.ReadFile: the whole payload, or an error.
ReadFile(p) ==
    (IF Exists(fs, p)
        THEN {[err |-> "nil", b |-> fs[p]]}
        ELSE {[err |-> "ENOENT", b |-> EmptyBytes]})
    \cup (IF Faulty THEN {[err |-> "EIO", b |-> EmptyBytes]} ELSE {})

\* VFS.Stat.
Stat(p) ==
    (IF Exists(fs, p) THEN {"nil"} ELSE {"ENOENT"})
    \cup (IF Faulty THEN {"EIO"} ELSE {})

\* VFS.Create: O_CREATE|O_TRUNC, the handle is open on the file at p.
Create(self, p) ==
    {[err |-> "nil", fs |-> Put(fs, p, EmptyBytes),
      wloc |-> [wloc EXCEPT ![self] = p]]}
    \cup (IF Faulty THEN {[err |-> "EIO", fs |-> fs, wloc |-> wloc]} ELSE {})

\* Write on an open handle: the bytes land in the file the handle is open on,
\* wherever it is linked now; a failed write leaves nothing or a part.
Write(self, b) ==
    LET at == wloc[self]
        linked == at # Orphan /\ Exists(fs, at)
    IN  {[err |-> "nil", fs |-> IF linked THEN Put(fs, at, b) ELSE fs]}
        \cup (IF Faulty
                THEN {[err |-> "EIO", fs |-> fs],
                      [err |-> "EIO", fs |-> IF linked THEN Put(fs, at, BadBytes) ELSE fs]}
                ELSE {})

\* Close of a handle.
Close(self) ==
    {[err |-> "nil", wloc |-> [wloc EXCEPT ![self] = NoHandle]]}
    \cup (IF Faulty
            THEN {[err |-> "EIO", wloc |-> [wloc EXCEPT ![self] = NoHandle]]}
            ELSE {})

\* VFS.Rename: atomic; the file keeps its open handles, a file it replaces
\* is unlinked.
Rename(old, new) ==
    (IF Exists(fs, old)
        THEN {[err |-> "nil",
               fs |-> IF old = new THEN fs ELSE Drop(Put(fs, new, fs[old]), old),
               wloc |-> [q \in Procs |->
                            IF old = new THEN wloc[q]
                            ELSE IF wloc[q] = old THEN new
                            ELSE IF wloc[q] = new THEN Orphan
                            ELSE wloc[q]]]}
        ELSE {[err |-> "ENOENT", fs |-> fs, wloc |-> wloc]})
    \cup (IF Faulty THEN {[err |-> "EIO", fs |-> fs, wloc |-> wloc]} ELSE {})

\* VFS.Remove.
Remove(p) ==
    (IF Exists(fs, p)
        THEN {[err |-> "nil", fs |-> Drop(fs, p),
               wloc |-> [q \in Procs |-> IF wloc[q] = p THEN Orphan ELSE wloc[q]]]}
        ELSE {[err |-> "ENOENT", fs |-> fs, wloc |-> wloc]})
    \cup (IF Faulty THEN {[err |-> "EIO", fs |-> fs, wloc |-> wloc]} ELSE {})

\* VFS.WriteFile: open, write, close as one call; a failure leaves the file
\* as it was or truncated.
WriteFile(p, b) ==
    {[err |-> "nil", fs |-> Put(fs, p, b)]}
    \cup (IF Faulty
            THEN {[err |-> "EIO", fs |-> fs],
                  [err |-> "EIO", fs |-> Put(fs, p, EmptyBytes)]}
            ELSE {})

Cost(e) == IF e = "EIO" THEN 1 ELSE 0

\* ------------------------------------------------------------ calls, returns

NoFile == [kind |-> "none", obj |-> {}]

ContentAt(f, p) == IF Exists(f, p) THEN f[p] ELSE NoFile

\* The locals of a request in a slot: its position, its arguments, the merged
\* record, the error it will return, the sidecar's payload when it was read
\* or stat-ed (seen), and whether a primitive returned an I/O error to it.
Idle ==
    [pc |-> "idle", path |-> << >>, newPath |-> << >>, m |-> EmptyRec,
     cur |-> EmptyRec, err |-> "nil", seen |-> NoFile, fault |-> FALSE]

\* What the step returns to a caller, if anything: the operation, its
\* arguments, the error, the record of a Load, the position it returned from,
\* whether it called a primitive, and from the request: seen and fault.
NoRet ==
    [op |-> "none", path |-> << >>, newPath |-> << >>, m |-> EmptyRec,
     err |-> "nil", rec |-> EmptyRec, at |-> "idle", io |-> FALSE,
     seen |-> NoFile, fault |-> FALSE]

Return(op, c, err, rec, io) ==
    [op |-> op, path |-> c.path, newPath |-> c.newPath, m |-> c.m,
     err |-> err, rec |-> rec, at |-> c.pc, io |-> io,
     seen |-> c.seen, fault |-> c.fault]

\* A request of one primitive on path, as that primitive returns e.
Once(path, newPath, m, sc, e) ==
    [Idle EXCEPT !.path = path, !.newPath = newPath, !.m = m,
                 !.seen = ContentAt(fs, sc), !.fault = (e = "EIO")]

Met(c, e) == [c EXCEPT !.fault = @ \/ e = "EIO"]

Start == nops < MaxOps

AllIdle == \A q \in Procs : call[q].pc = "idle"

\* A new request takes the first free slot.
Free(self) ==
    /\ Start
    /\ call[self].pc = "idle"
    /\ \A q \in Procs : q < self => call[q].pc # "idle"

\* ---------------------------------------------------------- PosixMetaStore

\* A Load that hands a zero-byte payload to the decoder.
LoadFromNoEmptyCheck(rd) ==
    IF rd.err # "nil" THEN [rec |-> EmptyRec, err |-> rd.err]
    ELSE IF rd.b.kind # "json" THEN [rec |-> EmptyRec, err |-> "DecodeError"]
    ELSE [rec |-> Unmarshal(rd.b), err |-> "nil"]

\* Load after its ReadFile returned rd.
LoadFrom(rd) ==
    IF rd.err # "nil" THEN [rec |-> EmptyRec, err |-> rd.err]
    ELSE IF rd.b.kind = "empty" THEN [rec |-> EmptyRec, err |-> "ErrorObjectNotFound"]
    ELSE IF rd.b.kind # "json" THEN [rec |-> EmptyRec, err |-> "DecodeError"]
    ELSE [rec |-> Unmarshal(rd.b), err |-> "nil"]

\* The field-by-field merge of Save.
Merge(cur, m) == [f \in Fields |-> IF m[f] # Nil THEN m[f] ELSE cur[f]]

Load(path) ==
    /\ Start
    /\ nops' = nops + 1
    /\ IF IsSidecarPath(path)
         THEN /\ ret' = Return("Load", Once(path, << >>, EmptyRec, metaPath(path), "nil"),
                               "ErrorObjectNotFound", EmptyRec, FALSE)
              /\ nfaults' = nfaults
         ELSE \E rd \in ReadFile(metaPath(path)) :
                /\ ret' = Return("Load",
                                 Once(path, << >>, EmptyRec, metaPath(path), rd.err),
                                 LoadFrom(rd).err, LoadFrom(rd).rec, TRUE)
                /\ nfaults' = nfaults + Cost(rd.err)
    /\ UNCHANGED <<Ext, fs, wloc, call, rmFailed>>

SaveBegin(self, path, m) ==
    /\ Free(self)
    /\ nops' = nops + 1
    /\ IF IsSidecarPath(path)
         THEN /\ ret' = Return("Save", Once(path, << >>, m, metaPath(path), "nil"),
                               "nil", EmptyRec, FALSE)
              /\ UNCHANGED <<call, nfaults>>
         ELSE \E rd \in ReadFile(metaPath(path)) :
                /\ call' = [call EXCEPT ![self] =
                              [Once(path, << >>, m, metaPath(path), rd.err) EXCEPT
                                  !.pc = "save_create",
                                  !.cur = Merge(LoadFrom(rd).rec, m)]]
                /\ nfaults' = nfaults + Cost(rd.err)
                /\ ret' = NoRet
    /\ UNCHANGED <<Ext, fs, wloc, rmFailed>>

SaveReturn(self, c, err) ==
    /\ ret' = Return("Save", c, err, EmptyRec, TRUE)
    /\ call' = [call EXCEPT ![self] = Idle]

SaveCreate(self) ==
    /\ call[self].pc = "save_create"
    /\ \E o \in Create(self, tmpPath(call[self].path)) :
         LET c == Met(call[self], o.err)
         IN  /\ fs' = o.fs /\ wloc' = o.wloc
             /\ nfaults' = nfaults + Cost(o.err)
             /\ IF o.err # "nil"
                  THEN SaveReturn(self, c, o.err)
                  ELSE /\ ret' = NoRet
                       /\ call' = [call EXCEPT ![self] = [c EXCEPT !.pc = "save_write"]]
    /\ UNCHANGED <<Ext, rmFailed, nops>>

\* json.Marshal of a PosixMeta cannot fail; Write follows it.
SaveWrite(self) ==
    /\ call[self].pc = "save_write"
    /\ \E o \in Write(self, Marshal(call[self].cur)) :
         LET c == Met(call[self], o.err)
         IN  /\ fs' = o.fs
             /\ nfaults' = nfaults + Cost(o.err)
             /\ call' = [call EXCEPT ![self] =
                           IF o.err # "nil"
                             THEN [c EXCEPT !.pc = "save_abort", !.err = o.err]
                             ELSE [c EXCEPT !.pc = "save_close"]]
    /\ ret' = NoRet
    /\ UNCHANGED <<Ext, wloc, rmFailed, nops>>

\* w.Close() whose result is dropped, after a failed Write.
SaveAbort(self) ==
    /\ call[self].pc = "save_abort"
    /\ \E o \in Close(self) :
         /\ wloc' = o.wloc
         /\ nfaults' = nfaults + Cost(o.err)
         /\ call' = [call EXCEPT ![self] =
                       [Met(call[self], o.err) EXCEPT !.pc = "save_remove"]]
    /\ ret' = NoRet
    /\ UNCHANGED <<Ext, fs, rmFailed, nops>>

SaveClose(self) ==
    /\ call[self].pc = "save_close"
    /\ \E o \in Close(self) :
         LET c == Met(call[self], o.err)
         IN  /\ wloc' = o.wloc
             /\ nfaults' = nfaults + Cost(o.err)
             /\ call' = [call EXCEPT ![self] =
                           IF o.err # "nil"
                             THEN [c EXCEPT !.pc = "save_remove", !.err = o.err]
                             ELSE [c EXCEPT !.pc = "save_rename"]]
    /\ ret' = NoRet
    /\ UNCHANGED <<Ext, fs, rmFailed, nops>>

\* A Save that merges again as it renames: the record it puts at the sidecar
\* path is its argument over the record found there at that moment.
SaveRenameMerging(self) ==
    /\ call[self].pc = "save_rename"
    /\ \E o \in Rename(tmpPath(call[self].path), metaPath(call[self].path)) :
         LET c == Met(call[self], o.err)
             sc == metaPath(c.path)
             now == IF Exists(fs, sc) /\ fs[sc].kind = "json"
                      THEN Unmarshal(fs[sc]) ELSE EmptyRec
         IN  /\ wloc' = o.wloc
             /\ nfaults' = nfaults + Cost(o.err)
             /\ IF o.err # "nil"
                  THEN /\ fs' = o.fs
                       /\ ret' = NoRet
                       /\ call' = [call EXCEPT ![self] =
                                     [c EXCEPT !.pc = "save_remove", !.err = o.err]]
                  ELSE /\ fs' = Put(o.fs, sc, Marshal(Merge(now, c.m)))
                       /\ SaveReturn(self, c, "nil")
    /\ UNCHANGED <<Ext, rmFailed, nops>>

SaveRename(self) ==
    /\ call[self].pc = "save_rename"
    /\ \E o \in Rename(tmpPath(call[self].path), metaPath(call[self].path)) :
         LET c == Met(call[self], o.err)
         IN  /\ fs' = o.fs /\ wloc' = o.wloc
             /\ nfaults' = nfaults + Cost(o.err)
             /\ IF o.err # "nil"
                  THEN /\ ret' = NoRet
                       /\ call' = [call EXCEPT ![self] =
                                     [c EXCEPT !.pc = "save_remove", !.err = o.err]]
                  ELSE SaveReturn(self, c, "nil")
    /\ UNCHANGED <<Ext, rmFailed, nops>>

\* A failure path that returns the error and leaves the temporary file.
SaveRemoveSkipped(self) ==
    /\ call[self].pc = "save_remove"
    /\ SaveReturn(self, call[self], call[self].err)
    /\ UNCHANGED <<Ext, fs, wloc, rmFailed, nops, nfaults>>

\* The best-effort Remove of the temporary path, then the error is returned.
SaveRemove(self) ==
    /\ call[self].pc = "save_remove"
    /\ \E o \in Remove(tmpPath(call[self].path)) :
         LET c == Met(call[self], o.err)
         IN  /\ fs' = o.fs /\ wloc' = o.wloc
             /\ nfaults' = nfaults + Cost(o.err)
             /\ rmFailed' = (rmFailed \/ o.err = "EIO")
             /\ SaveReturn(self, c, c.err)
    /\ UNCHANGED <<Ext, nops>>

Delete(path) ==
    /\ Start
    /\ nops' = nops + 1
    /\ IF IsSidecarPath(path)
         THEN /\ ret' = Return("Delete", Once(path, << >>, EmptyRec, metaPath(path), "nil"),
                               "nil", EmptyRec, FALSE)
              /\ UNCHANGED <<fs, wloc, nfaults>>
         ELSE \E o \in Remove(metaPath(path)) :
                /\ fs' = o.fs /\ wloc' = o.wloc
                /\ nfaults' = nfaults + Cost(o.err)
                /\ ret' = Return("Delete",
                                 Once(path, << >>, EmptyRec, metaPath(path), o.err),
                                 o.err, EmptyRec, TRUE)
    /\ UNCHANGED <<Ext, call, rmFailed>>

RenameBegin(self, oldPath, newPath) ==
    /\ Free(self)
    /\ oldPath # newPath
    /\ nops' = nops + 1
    /\ IF IsSidecarPath(oldPath) \/ IsSidecarPath(newPath)
         THEN /\ ret' = Return("Rename",
                               Once(oldPath, newPath, EmptyRec, metaPath(oldPath), "nil"),
                               "nil", EmptyRec, FALSE)
              /\ UNCHANGED <<call, nfaults>>
         ELSE \E e \in Stat(metaPath(oldPath)) :
                LET c == Once(oldPath, newPath, EmptyRec, metaPath(oldPath), e)
                IN  /\ nfaults' = nfaults + Cost(e)
                    /\ IF e # "nil"
                         THEN /\ ret' = Return("Rename", c, "nil", EmptyRec, TRUE)
                              /\ UNCHANGED call
                         ELSE /\ ret' = NoRet
                              /\ call' = [call EXCEPT ![self] =
                                            [c EXCEPT !.pc = "rename_mv"]]
    /\ UNCHANGED <<Ext, fs, wloc, rmFailed>>

RenameMove(self) ==
    /\ call[self].pc = "rename_mv"
    /\ \E o \in Rename(metaPath(call[self].path), metaPath(call[self].newPath)) :
         /\ fs' = o.fs /\ wloc' = o.wloc
         /\ nfaults' = nfaults + Cost(o.err)
         /\ ret' = Return("Rename", Met(call[self], o.err), o.err, EmptyRec, TRUE)
         /\ call' = [call EXCEPT ![self] = Idle]
    /\ UNCHANGED <<Ext, rmFailed, nops>>

\* ------------------------------------------------------------ sidecarStore

\* Records saved through the generic store.
GenericRecs ==
    {EmptyRec, OnlyField("mode", <<"3", "3", "1", "5", "2">>), OnlyField("uid", <<"7">>)}

GenericLoad(p) ==
    /\ Start
    /\ nops' = nops + 1
    /\ \E rd \in ReadFile(name(p)) :
         LET e == IF rd.err # "nil" THEN rd.err
                  ELSE IF rd.b.kind # "json" THEN "DecodeError" ELSE "nil"
         IN  /\ nfaults' = nfaults + Cost(rd.err)
             /\ ret' = Return("GenericLoad", Once(p, << >>, EmptyRec, name(p), rd.err),
                              e, IF e = "nil" THEN Unmarshal(rd.b) ELSE EmptyRec, TRUE)
    /\ UNCHANGED <<Ext, fs, wloc, call, rmFailed>>

\* A Save that merges into the record found, field by field.
GenericSaveMerging(p, m) ==
    /\ Start
    /\ nops' = nops + 1
    /\ LET b == ContentAt(fs, name(p))
           cur == IF b.kind = "json" THEN Unmarshal(b) ELSE EmptyRec
       IN  \E o \in WriteFile(name(p), Marshal(Merge(cur, m))) :
             /\ fs' = o.fs
             /\ nfaults' = nfaults + Cost(o.err)
             /\ ret' = Return("GenericSave", Once(p, << >>, m, name(p), o.err),
                              o.err, EmptyRec, TRUE)
    /\ UNCHANGED <<Ext, wloc, call, rmFailed>>

GenericSave(p, m) ==
    /\ Start
    /\ nops' = nops + 1
    /\ \E o \in WriteFile(name(p), Marshal(m)) :
         /\ fs' = o.fs
         /\ nfaults' = nfaults + Cost(o.err)
         /\ ret' = Return("GenericSave", Once(p, << >>, m, name(p), o.err),
                          o.err, EmptyRec, TRUE)
    /\ UNCHANGED <<Ext, wloc, call, rmFailed>>

GenericRename(oldPath, newPath) ==
    /\ Start
    /\ nops' = nops + 1
    /\ \E o \in Rename(name(oldPath), name(newPath)) :
         /\ fs' = o.fs /\ wloc' = o.wloc
         /\ nfaults' = nfaults + Cost(o.err)
         /\ ret' = Return("GenericRename",
                          Once(oldPath, newPath, EmptyRec, name(oldPath), o.err),
                          o.err, EmptyRec, TRUE)
    /\ UNCHANGED <<Ext, call, rmFailed>>

GenericDelete(p) ==
    /\ Start
    /\ nops' = nops + 1
    /\ \E o \in Remove(name(p)) :
         /\ fs' = o.fs /\ wloc' = o.wloc
         /\ nfaults' = nfaults + Cost(o.err)
         /\ ret' = Return("GenericDelete", Once(p, << >>, EmptyRec, name(p), o.err),
                          o.err, EmptyRec, TRUE)
    /\ UNCHANGED <<Ext, call, rmFailed>>

\* History: the Saves that wrote a record and returned success, in the order
\* they returned, each with its argument and the payload it had read.
Log ==
    saved' = IF ret'.op = "Save" /\ ret'.io /\ ret'.err = "nil"
               THEN Append(saved, [m |-> ret'.m, seen |-> ret'.seen])
               ELSE saved

\* History: the files of the backing store when the request that is running,
\* or the last that ran, was started.
Snap == before' = IF AllIdle THEN fs ELSE before

\* A request addressed to a store, not to a front-end.
Solo == Log /\ Snap /\ UNCHANGED <<live, req, out, enc>>

\* -------------------------------------------------------------- front-ends

\* Opt.PersistMetadata of the VFS.
PersistMetadata == TRUE

\* Opt.UID and Opt.GID of the VFS.
DefaultUID == <<"5", "0", "1">>

DefaultGID == <<"2", "0">>

\* The live objects of the VFS when the front-ends start: a regular file of
\* mode 0644 and a directory of mode ModeDir|0755.
LiveInit ==
    [p \in {<<"a">>, <<"d">>} |->
        IF p = <<"a">> THEN [mode |-> FileMode(0, 420), mtime |-> 3, size |-> 1]
                       ELSE [mode |-> FileMode(2, 493), mtime |-> 4, size |-> 0]]

\* Paths the front-ends are asked about.
FrontPaths == {<<"a">>, <<"d">>, <<"b">>, <<"a", ".posixmeta">>}

IsDir(mode) == mode.hi \div 2 = 1

\* f.vfs.Stat of a live object.
VfsStat(p) ==
    (IF p \in DOMAIN live THEN {"nil"} ELSE {"ENOENT"})
    \cup (IF Faulty THEN {"EIO"} ELSE {})

\* The attributes a query reports.
Attrs(mode, uid, gid, atime, mtime) ==
    [mode |-> mode, uid |-> uid, gid |-> gid, atime |-> atime, mtime |-> mtime]

\* The os.FileInfo of f.vfs.Stat and f.vfs.ReadDir, with the Sys() that setSys
\* starts from.
BaseInfo(p) ==
    Attrs(live[p].mode, DefaultUID, DefaultGID, live[p].mtime, live[p].mtime)

\* What File.Attr fills in before it looks at the sidecar.
BaseAttr(p) ==
    Attrs(FileMode((live[p].mode.hi \div 2) * 2, live[p].mode.lo),
          DefaultUID, DefaultGID, live[p].mtime, live[p].mtime)

\* The ReadFile of a front-end's Load; the front-end does not call Load for a
\* sidecar path.
Reads(p) ==
    IF ~PersistMetadata \/ IsSidecarPath(p)
      THEN {[err |-> "skipped", b |-> EmptyBytes]}
      ELSE ReadFile(metaPath(p))

LoadVia(rd) ==
    IF rd.err = "skipped" THEN [rec |-> EmptyRec, err |-> "skipped"] ELSE LoadFrom(rd)

\* A uid or gid field overrides when it is present and decodes.
Owner(field, base) ==
    IF field # Nil /\ ParseDecimal(field).ok THEN ParseDecimal(field).v ELSE base

\* A time field overrides when it is present and does not decode to zero.
TimeOr(field, base) ==
    IF field # Nil /\ ParsePosixTime(field) # ZeroTime THEN ParsePosixTime(field) ELSE base

\* setSys: uid and gid from the record of a Load that succeeded.
setSys(fi, ld) ==
    IF ld.err # "nil" THEN fi
    ELSE [fi EXCEPT !.uid = Owner(ld.rec["uid"], @), !.gid = Owner(ld.rec["gid"], @)]

\* withOverlayFileInfo, as FS.Stat calls it on a Load that succeeded: Mode()
\* and ModTime() of the wrapped os.FileInfo.
withOverlayFileInfo(fi, ld) ==
    IF ld.err # "nil" THEN fi
    ELSE [fi EXCEPT !.mode = IF ld.rec["mode"] # Nil THEN ParsePosixMode(ld.rec["mode"]) ELSE @,
                    !.mtime = TimeOr(ld.rec["mtime"], @)]

\* The overlay of File.Attr on a Load that succeeded.
AttrOverlay(a, ld) ==
    IF ld.err # "nil" THEN a
    ELSE [a EXCEPT !.mode = IF ld.rec["mode"] # Nil THEN ParsePosixMode(ld.rec["mode"]) ELSE @,
                   !.uid = Owner(ld.rec["uid"], @),
                   !.gid = Owner(ld.rec["gid"], @),
                   !.atime = TimeOr(ld.rec["atime"], @),
                   !.mtime = TimeOr(ld.rec["mtime"], @)]

NoAttrs == Attrs(FileMode(0, 0), << >>, << >>, ZeroTime, ZeroTime)

\* No front-end request is waiting for the store.
NoReq ==
    [op |-> "none", path |-> << >>, err |-> "nil", raw |-> "nil",
     given |-> {}, m |-> EmptyRec, want |-> NoAttrs]

\* What the step returns to the front-end's caller, if anything: the request,
\* its error, the attributes reported and the ones the live object gave, the
\* errors of the Loads it made (the one of setSys, then the one of the
\* overlay), the error of the live change before and after the front-end
\* looked at it, the fields the request specified and their values, and
\* whether a store operation was called and what it returned.
NoOut ==
    [op |-> "none", path |-> << >>, err |-> "nil", attrs |-> NoAttrs,
     base |-> NoAttrs, lds |-> << >>, raw |-> "nil", given |-> {},
     m |-> EmptyRec, want |-> NoAttrs, stored |-> FALSE, serr |-> "nil"]

Answer(op, p, err, attrs, base, lds) ==
    [NoOut EXCEPT !.op = op, !.path = p, !.err = err, !.attrs = attrs,
                  !.base = base, !.lds = lds]

FrontIdle == AllIdle /\ req.op = "none"

\* File.Attr of the mount front-end, on the node of a live regular file.
MountAttr(p) ==
    /\ Start /\ FrontIdle
    /\ p \in DOMAIN live /\ ~IsDir(live[p].mode)
    /\ \E rd \in Reads(p) :
         /\ out' = Answer("Attr", p, "nil", AttrOverlay(BaseAttr(p), LoadVia(rd)),
                          BaseAttr(p), <<LoadVia(rd).err>>)
         /\ nfaults' = nfaults + Cost(rd.err)
    /\ nops' = nops + 1
    /\ ret' = NoRet
    /\ UNCHANGED <<Ext, fs, wloc, call, rmFailed, saved, live, req>>

\* A Stat that fails when a Load fails with anything but NotFound.
NfsStatStrict(p) ==
    /\ Start /\ FrontIdle
    /\ \E e \in VfsStat(p) :
         IF e # "nil"
           THEN /\ out' = [Answer("Stat", p, e, NoAttrs, NoAttrs, << >>) EXCEPT !.raw = e]
                /\ nfaults' = nfaults + Cost(e)
           ELSE \E rd \in Reads(p) :
                  LET ld == LoadVia(rd)
                      bad == ld.err \notin {"nil", "skipped", "ENOENT", "ErrorObjectNotFound"}
                  IN  /\ out' = Answer("Stat", p, IF bad THEN ld.err ELSE "nil",
                                       withOverlayFileInfo(setSys(BaseInfo(p), ld), ld),
                                       BaseInfo(p), <<ld.err, ld.err>>)
                      /\ nfaults' = nfaults + Cost(rd.err)
    /\ nops' = nops + 1
    /\ ret' = NoRet
    /\ UNCHANGED <<Ext, fs, wloc, call, rmFailed, saved, live, req>>

\* FS.Stat of the NFS front-end: setSys makes one Load, the overlay another.
NfsStat(p) ==
    /\ Start /\ FrontIdle
    /\ \E e \in VfsStat(p) :
         IF e # "nil"
           THEN /\ out' = [Answer("Stat", p, e, NoAttrs, NoAttrs, << >>) EXCEPT !.raw = e]
                /\ nfaults' = nfaults + Cost(e)
           ELSE \E rd1 \in Reads(p), rd2 \in Reads(p) :
                  /\ nfaults + Cost(rd1.err) + Cost(rd2.err) <= MaxFaults
                  /\ out' = Answer("Stat", p, "nil",
                                   withOverlayFileInfo(setSys(BaseInfo(p), LoadVia(rd1)),
                                                       LoadVia(rd2)),
                                   BaseInfo(p), <<LoadVia(rd1).err, LoadVia(rd2).err>>)
                  /\ nfaults' = nfaults + Cost(rd1.err) + Cost(rd2.err)
    /\ nops' = nops + 1
    /\ ret' = NoRet
    /\ UNCHANGED <<Ext, fs, wloc, call, rmFailed, saved, live, req>>

\* FS.Lstat of the NFS front-end.
NfsLstat(p) ==
    /\ Start /\ FrontIdle
    /\ \E e \in VfsStat(p) :
         IF e # "nil"
           THEN /\ out' = [Answer("Lstat", p, e, NoAttrs, NoAttrs, << >>) EXCEPT !.raw = e]
                /\ nfaults' = nfaults + Cost(e)
           ELSE \E rd \in Reads(p) :
                  /\ out' = Answer("Lstat", p, "nil", setSys(BaseInfo(p), LoadVia(rd)),
                                   BaseInfo(p), <<LoadVia(rd).err>>)
                  /\ nfaults' = nfaults + Cost(rd.err)
    /\ nops' = nops + 1
    /\ ret' = NoRet
    /\ UNCHANGED <<Ext, fs, wloc, call, rmFailed, saved, live, req>>

\* FS.ReadDir of the NFS front-end, for the entry of p in the listing of the
\* root: setSys on each os.FileInfo of f.vfs.ReadDir.
NfsReadDir(p) ==
    /\ Start /\ FrontIdle
    /\ p \in DOMAIN live
    /\ \E rd \in Reads(p) :
         /\ out' = Answer("ReadDir", p, "nil", setSys(BaseInfo(p), LoadVia(rd)),
                          BaseInfo(p), <<LoadVia(rd).err>>)
         /\ nfaults' = nfaults + Cost(rd.err)
    /\ nops' = nops + 1
    /\ ret' = NoRet
    /\ UNCHANGED <<Ext, fs, wloc, call, rmFailed, saved, live, req>>

\* ---- mutations: the live change, then the store

\* The outcome of a change to a live object (Truncate, SetModTime, Chmod,
\* Chown, Chtimes, Rename, Remove of the VFS).
LiveChange == {"nil"} \cup (IF Faulty THEN {"EIO"} ELSE {})

\* The request r handed its record to the store, whose operation returned.
\* A front-end that returns the store's error when the live change succeeded.
SettleWithStoreError(r, sr) ==
    [NoOut EXCEPT !.op = r.op, !.path = r.path,
                  !.err = IF r.err = "nil" THEN sr.err ELSE r.err,
                  !.raw = r.raw, !.given = r.given, !.m = r.m, !.want = r.want,
                  !.stored = TRUE, !.serr = sr.err]

\* The request r handed its record to the store, whose operation returned sr:
\* the front-end drops the store's error and returns the live change's.
Settle(r, sr) ==
    [NoOut EXCEPT !.op = r.op, !.path = r.path, !.err = r.err, !.raw = r.raw,
                  !.given = r.given, !.m = r.m, !.want = r.want,
                  !.stored = TRUE, !.serr = sr.err]

\* The front-end waits for the store operation it called, or returns with it.
Pending(r) ==
    IF ret'.op # "none"
      THEN out' = Settle(r, ret') /\ req' = NoReq
      ELSE out' = NoOut /\ req' = r

\* A step of the store operation a front-end request waits for.
Finish == Pending(req) /\ UNCHANGED live

\* The front-end returns without calling the store.
Refuse(r) ==
    /\ out' = [NoOut EXCEPT !.op = r.op, !.path = r.path, !.err = r.err,
                            !.raw = r.raw, !.given = r.given, !.m = r.m,
                            !.want = r.want]
    /\ req' = NoReq
    /\ ret' = NoRet
    /\ nops' = nops + 1
    /\ nfaults' = nfaults + Cost(r.raw)
    /\ UNCHANGED <<Ext, fs, wloc, call, rmFailed, saved>>

Request(op, p, err, raw, given, m, want) ==
    [op |-> op, path |-> p, err |-> err, raw |-> raw, given |-> given,
     m |-> m, want |-> want]

\* The tail of FS.Chmod, FS.Chown and FS.Chtimes: Save when the live change
\* returned no error and the path is not a sidecar path.
SaveIfApplied(r) ==
    IF r.err = "nil" /\ PersistMetadata /\ ~IsSidecarPath(r.path)
      THEN SaveBegin(1, r.path, r.m) /\ Log /\ Pending(r)
      ELSE Refuse(r)

\* Chmod of the live file keeps the file-type bits of its mode.
Chmodded(p, mode) ==
    [live EXCEPT ![p].mode = FileMode(@.hi, ClearType(@.lo) + (mode.lo % 4096))]

\* FS.Chmod: Open, file.Chmod (ENOSYS is masked), Save of the mode.
NfsChmod(p, mode) ==
    /\ Start /\ FrontIdle
    /\ IF p \notin DOMAIN live
         THEN /\ Refuse(Request("Chmod", p, "ENOENT", "ENOENT", {"mode"}, EmptyRec, NoAttrs))
              /\ UNCHANGED live
         ELSE \E e \in LiveChange \cup {"ENOSYS"} :
                /\ live' = IF e = "nil" THEN Chmodded(p, mode) ELSE live
                /\ SaveIfApplied(
                     Request("Chmod", p, IF e = "ENOSYS" THEN "nil" ELSE e, e, {"mode"},
                             OnlyField("mode", FormatPosixMode(mode, FALSE)),
                             [NoAttrs EXCEPT !.mode = mode]))

\* The fields a Chown specifies: -1 leaves the uid or the gid as it is.
ChownGiven(uid, gid) ==
    (IF uid # -1 THEN {"uid"} ELSE {}) \cup (IF gid # -1 THEN {"gid"} ELSE {})

\* FS.Chown: Open, file.Chown, Save of uid and gid.
NfsChown(p, uid, gid) ==
    /\ Start /\ FrontIdle
    /\ IF p \notin DOMAIN live
         THEN /\ Refuse(Request("Chown", p, "ENOENT", "ENOENT", ChownGiven(uid, gid),
                                EmptyRec, NoAttrs))
              /\ UNCHANGED live
         ELSE \E e \in LiveChange :
                /\ live' = live
                /\ SaveIfApplied(
                     Request("Chown", p, e, e, ChownGiven(uid, gid),
                             [f \in Fields |-> CASE f = "uid" -> FormatUint64(uid)
                                                 [] f = "gid" -> FormatUint64(gid)
                                                 [] OTHER -> Nil],
                             [NoAttrs EXCEPT !.uid = FormatUint64(uid),
                                             !.gid = FormatUint64(gid)]))

\* f.vfs.Chtimes sets the modification time of the live object.
NfsChtimes(p, atime, mtime) ==
    /\ Start /\ FrontIdle
    /\ \E e \in (IF p \in DOMAIN live THEN LiveChange ELSE {"ENOENT"}) :
         /\ live' = IF e = "nil" THEN [live EXCEPT ![p].mtime = mtime] ELSE live
         /\ SaveIfApplied(
              Request("Chtimes", p, e, e, {"atime", "mtime"},
                      [f \in Fields |-> CASE f = "atime" -> FormatTime(atime)
                                          [] f = "mtime" -> FormatTime(mtime)
                                          [] OTHER -> Nil],
                      [NoAttrs EXCEPT !.atime = atime, !.mtime = mtime]))

\* FS.Rename: f.vfs.Rename, then the store's Rename when it returned no error.
NfsRename(oldpath, newpath) ==
    /\ Start /\ FrontIdle
    /\ oldpath # newpath
    /\ \E e \in (IF oldpath \in DOMAIN live THEN LiveChange ELSE {"ENOENT"}) :
         LET r == Request("Rename", oldpath, e, e, {}, EmptyRec, NoAttrs)
         IN  /\ live' = IF e = "nil"
                          THEN [q \in (DOMAIN live \ {oldpath}) \cup {newpath} |->
                                   IF q = newpath THEN live[oldpath] ELSE live[q]]
                          ELSE live
             /\ IF e = "nil" /\ PersistMetadata
                   /\ ~(IsSidecarPath(oldpath) \/ IsSidecarPath(newpath))
                  THEN RenameBegin(1, oldpath, newpath) /\ Log /\ Pending(r)
                  ELSE Refuse(r)

\* FS.Remove: f.vfs.Remove, then the store's Delete when it returned no error.
NfsRemove(p) ==
    /\ Start /\ FrontIdle
    /\ \E e \in (IF p \in DOMAIN live THEN LiveChange ELSE {"ENOENT"}) :
         LET r == Request("Remove", p, e, e, {}, EmptyRec, NoAttrs)
         IN  /\ live' = IF e = "nil" THEN [q \in DOMAIN live \ {p} |-> live[q]] ELSE live
             /\ IF e = "nil" /\ PersistMetadata /\ ~IsSidecarPath(p)
                  THEN Delete(p) /\ Log /\ Pending(r)
                  ELSE Refuse(r)

\* fuse.SetattrRequest: the fields that are valid, and their values.
SetattrReqs ==
    { [valid |-> {"size", "mode"}, size |-> 0, mode |-> FileMode(0, 384), uid |-> 0, mtime |-> 0],
      [valid |-> {"size"}, size |-> 0, mode |-> FileMode(0, 0), uid |-> 0, mtime |-> 0],
      [valid |-> {"mtime", "uid"}, size |-> 0, mode |-> FileMode(0, 0), uid |-> 7, mtime |-> 9] }

\* The partial record File.Setattr builds from the valid fields.
SetattrMeta(a) ==
    [f \in Fields |-> CASE f = "mode" /\ "mode" \in a.valid -> FormatPosixMode(a.mode, FALSE)
                        [] f = "uid" /\ "uid" \in a.valid -> FormatUint64(a.uid)
                        [] f = "mtime" /\ "mtime" \in a.valid -> FormatTime(a.mtime)
                        [] OTHER -> Nil]

\* File.Setattr of the mount front-end, on the node of a live regular file:
\* Truncate, SetModTime, then Save of the valid fields whatever the two
\* returned; err is the first error.  (An I/O error of the live change is
\* counted against MaxFaults only when no Save follows.)
MountSetattr(p, a) ==
    /\ Start /\ FrontIdle
    /\ p \in DOMAIN live /\ ~IsDir(live[p].mode)
    /\ \E e1 \in (IF "size" \in a.valid THEN LiveChange ELSE {"nil"}),
          e2 \in (IF "mtime" \in a.valid THEN LiveChange ELSE {"nil"}) :
         LET err == IF e1 # "nil" THEN e1 ELSE e2
             r == Request("Setattr", p, err, err, a.valid \cap Fields, SetattrMeta(a),
                          [NoAttrs EXCEPT !.mode = a.mode, !.uid = FormatUint64(a.uid),
                                          !.mtime = a.mtime])
         IN  /\ live' = [live EXCEPT
                           ![p].size = IF "size" \in a.valid /\ e1 = "nil" THEN a.size ELSE @,
                           ![p].mtime = IF "mtime" \in a.valid /\ e2 = "nil" THEN a.mtime ELSE @]
             /\ IF PersistMetadata /\ ~IsSidecarPath(p) /\ PosixAnyFieldSet(r.m)
                  THEN SaveBegin(1, p, r.m) /\ Log /\ Pending(r)
                  ELSE Refuse(r)

\* ---------------------------------------------------------- the mode codec

\* A run of the codec: the permission value and isDir it is given, then the
\* string of FormatPosixMode, the mode ParsePosixMode makes of the string, and
\* the string FormatPosixMode makes of that mode.
NoEnc ==
    [perm |-> 0, isDir |-> FALSE, done |-> 0, s |-> << >>,
     back |-> FileMode(0, 0), again |-> << >>]

Encode ==
    /\ enc.done = 0
    /\ enc' = [enc EXCEPT !.done = 1,
                          !.s = FormatPosixMode(FileMode(0, enc.perm), enc.isDir)]
    /\ UNCHANGED <<Ext, fs, wloc, call, ret, rmFailed, nops, nfaults, saved,
                   live, req, out>>

Decode ==
    /\ enc.done = 1
    /\ enc' = [enc EXCEPT !.done = 2, !.back = ParsePosixMode(enc.s)]
    /\ UNCHANGED <<Ext, fs, wloc, call, ret, rmFailed, nops, nfaults, saved,
                   live, req, out>>

EncodeAgain ==
    /\ enc.done = 2
    /\ enc' = [enc EXCEPT !.done = 3, !.again = FormatPosixMode(enc.back, enc.isDir)]
    /\ UNCHANGED <<Ext, fs, wloc, call, ret, rmFailed, nops, nfaults, saved,
                   live, req, out>>

\* ------------------------------------------------------------ specification

\* Sidecar payloads found on the backing store when the stores are bound to it.
InitPayloads ==
    { NoFile, EmptyBytes, BadBytes,
      Marshal([f \in Fields |-> CASE f = "mode" -> <<"1", "0", "0", "6", "4", "4">>
                                  [] f = "uid" -> <<"0">>
                                  [] OTHER -> Nil]) }

Init ==
    /\ Ext \in Exts
    /\ \E b \in InitPayloads :
         fs = IF b = NoFile THEN << >> ELSE [q \in {<<"a">> \o DefaultExt} |-> b]
    /\ wloc = [q \in Procs |-> NoHandle]
    /\ call = [q \in Procs |-> Idle]
    /\ ret = NoRet
    /\ rmFailed = FALSE
    /\ nops = 0
    /\ nfaults = 0
    /\ saved = << >>
    /\ live = LiveInit
    /\ req = NoReq
    /\ out = NoOut
    /\ enc = NoEnc
    /\ before = fs

SaveSteps(self) ==
    \/ SaveCreate(self)
    \/ SaveWrite(self)
    \/ SaveAbort(self)
    \/ SaveClose(self)
    \/ SaveRename(self)
    \/ SaveRemove(self)

Next ==
    \/ \E p \in ArgPaths : AllIdle /\ Load(p) /\ Solo
    \/ \E p \in ArgPaths : AllIdle /\ Delete(p) /\ Solo
    \/ \E p \in ArgPaths, m \in InRecs : SaveBegin(1, p, m) /\ Solo
    \/ SaveSteps(1) /\ Solo
    \/ \E p, q \in ArgPaths : RenameBegin(1, p, q) /\ Solo
    \/ RenameMove(1) /\ Solo

\* Requests to the POSIX store, one after the other.
Spec == Init /\ [][Next]_vars

\* A tracked object whose name is a sidecar path followed by ".tmp".
TrackedTmp == <<"a">> \o DefaultExt \o TmpSuffix

\* The backing store also holds the tracked object TrackedTmp, with content of
\* its own.
InitTracked ==
    /\ Ext \in Exts
    /\ \E b \in InitPayloads :
         fs = IF b = NoFile
                THEN [q \in {TrackedTmp} |-> BadBytes]
                ELSE [q \in {<<"a">> \o DefaultExt, TrackedTmp} |->
                         IF q = TrackedTmp THEN BadBytes ELSE b]
    /\ wloc = [q \in Procs |-> NoHandle]
    /\ call = [q \in Procs |-> Idle]
    /\ ret = NoRet
    /\ rmFailed = FALSE
    /\ nops = 0
    /\ nfaults = 0
    /\ saved = << >>
    /\ live = LiveInit
    /\ req = NoReq
    /\ out = NoOut
    /\ enc = NoEnc
    /\ before = fs

\* Requests to the POSIX store, one after the other, beside that object.
SpecTracked == InitTracked /\ [][Next]_vars

\* The path the concurrent requests contend for.
SharedPaths == {<<"a">>}

NextConcurrent ==
    \/ \E p \in SharedPaths : Load(p) /\ Solo
    \/ \E self \in Procs :
        \/ \E p \in SharedPaths, m \in InRecs : SaveBegin(self, p, m) /\ Solo
        \/ SaveSteps(self) /\ Solo

\* Saves of the POSIX store on one path, interleaved primitive by primitive.
SpecConcurrent == Init /\ [][NextConcurrent]_vars

NextGeneric ==
    \/ \E p \in GenericArgPaths : GenericLoad(p) /\ Solo
    \/ \E p \in GenericArgPaths, m \in GenericRecs : GenericSave(p, m) /\ Solo
    \/ \E p, q \in GenericArgPaths : p # q /\ GenericRename(p, q) /\ Solo
    \/ \E p \in GenericArgPaths : GenericDelete(p) /\ Solo

\* Requests to the generic store.
SpecGeneric == Init /\ [][NextGeneric]_vars

\* Modes, owners and times the front-ends are asked to set.
ChmodModes == {FileMode(0, 384)}

ChownIds == {-1, 1000}

NextFront ==
    \/ \E p \in FrontPaths : MountAttr(p) /\ UNCHANGED <<enc, before>>
    \/ \E p \in FrontPaths : NfsStat(p) /\ UNCHANGED <<enc, before>>
    \/ \E p \in FrontPaths : NfsLstat(p) /\ UNCHANGED <<enc, before>>
    \/ \E p \in FrontPaths : NfsReadDir(p) /\ UNCHANGED <<enc, before>>
    \/ \E p \in FrontPaths, mode \in ChmodModes : NfsChmod(p, mode) /\ UNCHANGED <<enc, before>>
    \/ \E p \in FrontPaths, uid \in ChownIds : NfsChown(p, uid, 100) /\ UNCHANGED <<enc, before>>
    \/ \E p \in FrontPaths : NfsChtimes(p, 5, 7) /\ UNCHANGED <<enc, before>>
    \/ \E p, q \in FrontPaths : NfsRename(p, q) /\ UNCHANGED <<enc, before>>
    \/ \E p \in FrontPaths : NfsRemove(p) /\ UNCHANGED <<enc, before>>
    \/ \E p \in FrontPaths, a \in SetattrReqs : MountSetattr(p, a) /\ UNCHANGED <<enc, before>>
    \/ SaveSteps(1) /\ Log /\ Finish /\ UNCHANGED <<enc, before>>
    \/ RenameMove(1) /\ Log /\ Finish /\ UNCHANGED <<enc, before>>

\* Requests to the mount and NFS front-ends, one after the other.
SpecFront == Init /\ [][NextFront]_vars

\* Sidecar payloads that decode as JSON into a record with fields whose
\* strings the front-ends cannot decode: a mode that is not octal or is empty,
\* a uid above 4294967295, a uid or gid that is not decimal, an atime or mtime
\* that is not RFC3339; beside fields that decode.
CorruptPayloads ==
    { Marshal(OnlyField("mode", <<"6", "4", "8">>)),
      Marshal([f \in Fields |->
                 CASE f = "mode" -> <<"1", "0", "0", "6", "0", "0">>
                   [] f = "uid" -> <<"4", "2", "9", "4", "9", "6", "7", "2", "9", "6">>
                   [] f = "gid" -> <<"-", "1">>
                   [] f = "atime" -> <<"1">>
                   [] f = "mtime" -> <<"n", "o", "w">>
                   [] OTHER -> Nil]),
      Marshal([f \in Fields |->
                 CASE f = "mode" -> << >>
                   [] f = "uid" -> <<"x">>
                   [] f = "gid" -> <<"7">>
                   [] f = "mtime" -> <<"T", "5", "Z">>
                   [] OTHER -> Nil]) }

\* The backing store holds such a sidecar for the live file a.
InitCorrupt ==
    /\ Ext \in Exts
    /\ \E b \in CorruptPayloads : fs = [q \in {<<"a">> \o DefaultExt} |-> b]
    /\ wloc = [q \in Procs |-> NoHandle]
    /\ call = [q \in Procs |-> Idle]
    /\ ret = NoRet
    /\ rmFailed = FALSE
    /\ nops = 0
    /\ nfaults = 0
    /\ saved = << >>
    /\ live = LiveInit
    /\ req = NoReq
    /\ out = NoOut
    /\ enc = NoEnc
    /\ before = fs

\* Requests to the mount and NFS front-ends over such a sidecar.
SpecCorrupt == InitCorrupt /\ [][NextFront]_vars

\* The codec is given every permission value up to MaxPerm, for a file and for
\* a directory.
InitCodec ==
    /\ Ext = DefaultExt
    /\ fs = << >>
    /\ wloc = [q \in Procs |-> NoHandle]
    /\ call = [q \in Procs |-> Idle]
    /\ ret = NoRet
    /\ rmFailed = FALSE
    /\ nops = 0
    /\ nfaults = 0
    /\ saved = << >>
    /\ live = LiveInit
    /\ req = NoReq
    /\ out = NoOut
    /\ enc \in {[NoEnc EXCEPT !.perm = p, !.isDir = d] : p \in 0..MaxPerm, d \in BOOLEAN}
    /\ before = fs

NextCodec ==
    \/ Encode /\ UNCHANGED before
    \/ Decode /\ UNCHANGED before
    \/ EncodeAgain /\ UNCHANGED before

\* FormatPosixMode, ParsePosixMode and FormatPosixMode again, on each input.
SpecCodec == InitCodec /\ [][NextCodec]_vars

\* ------------------------------------------------------------------ claims

\* What Load returns for a sidecar payload b when ReadFile meets no I/O error.
LoadOf(b) ==
    LoadFrom(IF b = NoFile THEN [err |-> "ENOENT", b |-> EmptyBytes]
                           ELSE [err |-> "nil", b |-> b])

\* The NotFound outcomes: the sidecar file does not exist, or Load found
\* nothing in it.
IsNotFound(e) == e \in {"ENOENT", "ErrorObjectNotFound"}

Sidecar(p) == ContentAt(fs, metaPath(p))

PosixOps == {"Load", "Save", "Rename", "Delete"}

\* C1: after a successful Save(P, M) on a non-sidecar path whose persisted
\* record was R (none: the empty record), the persisted record is M's value
\* for each field M has and R's value for the others, also when the read of
\* the sidecar failed with an I/O error.
C1_FieldLevelMerge ==
    (ret.op = "Save" /\ ret.io /\ ret.err = "nil") =>
        LET R == IF ret.seen.kind = "json" THEN Unmarshal(ret.seen) ELSE EmptyRec
        IN  /\ Sidecar(ret.path).kind = "json"
            /\ Unmarshal(Sidecar(ret.path)) = Merge(R, ret.m)

\* The payload is absent or a complete encoded record.
Whole(b) == b.kind \in {"none", "json"}

SidecarsWhole == \A p \in ArgPaths : Whole(Sidecar(p))

\* C2: no step of interleaved Saves puts anything but a complete encoded
\* record at a sidecar path: from a state whose sidecars are absent or
\* complete, every step leads to such a state.
C2_AtomicVisibility == [][SidecarsWhole => SidecarsWhole']_vars

\* C3: when Save(P, M) returns an error, a Load(P) after it returns what a
\* Load(P) before it returned.
C3_FailedSaveKeepsRecord ==
    (ret.op = "Save" /\ ret.err # "nil") =>
        LoadOf(Sidecar(ret.path)) = LoadOf(ret.seen)

\* A Save over a persisted record failed after it had created the temporary
\* file, and removed it.
C3_Witness ==
    /\ ret.op = "Save" /\ ret.err # "nil" /\ ret.at = "save_remove"
    /\ ret.seen.kind = "json"
    /\ LoadOf(Sidecar(ret.path)).err = "nil"

NoTemp == \A p \in ArgPaths : ~Exists(fs, tmpPath(p))

TestExts == {<<".posixmeta">>, <<".m">>, <<".", "meta">>}

TestPaths == ArgPaths \cup {<< >>, <<"a", "/">>, <<".posixmeta">>, <<"a", ".">>}

\* The operation was addressed at a sidecar path: the extension is not empty
\* and the path (for Rename, either path) ends with it.
Guarded(r) ==
    /\ r.op \in PosixOps
    /\ Ext # << >>
    /\ \/ HasSuffix(r.path, Ext)
       \/ r.op = "Rename" /\ HasSuffix(r.newPath, Ext)

\* C5: the sidecar path of any path is a sidecar path, for every non-empty
\* extension; Load, Save, Rename and Delete addressed at a sidecar path call
\* no primitive and leave the backing store as it is; Load returns NotFound
\* and the others succeed.
C5_RecursionGuard ==
    /\ [](\A e \in TestExts, p \in TestPaths :
             IsSidecarPathExt(e, metaPathExt(e, p)))
    /\ [](Guarded(ret) =>
             /\ ~ret.io
             /\ ret.err = IF ret.op = "Load" THEN "ErrorObjectNotFound" ELSE "nil")
    /\ [][Guarded(ret') => (fs' = fs /\ nfaults' = nfaults)]_vars

\* A Rename whose new path alone is a sidecar path returned.
C5_Witness ==
    /\ Guarded(ret) /\ ret.op = "Rename"
    /\ ~HasSuffix(ret.path, Ext)
    /\ Exists(fs, metaPath(ret.path))

\* C6: Delete(P) on a non-sidecar path whose sidecar file does not exist
\* returns success.
C6_IdempotentDelete ==
    (ret.op = "Delete" /\ ret.io /\ ~ret.fault /\ ret.seen = NoFile) =>
        ret.err = "nil"

\* C7: for a path P without a record, after Save(P, R) with R not empty
\* Load(P) returns R; after Rename(P, Q) of a path with the record R, Load(Q)
\* returns R and Load(P) returns NotFound; after Delete(Q), Load(Q) returns
\* NotFound and no sidecar file of Q exists.
C7_Lifecycle ==
    /\ (ret.op = "Save" /\ ret.io /\ ret.err = "nil" /\ ret.seen = NoFile
          /\ PosixAnyFieldSet(ret.m)) =>
            LoadOf(Sidecar(ret.path)) = [rec |-> ret.m, err |-> "nil"]
    /\ (ret.op = "Rename" /\ ret.io /\ ret.err = "nil" /\ ret.seen.kind = "json"
          /\ PosixAnyFieldSet(Unmarshal(ret.seen))) =>
            /\ LoadOf(Sidecar(ret.newPath)) = [rec |-> Unmarshal(ret.seen), err |-> "nil"]
            /\ IsNotFound(LoadOf(Sidecar(ret.path)).err)
    /\ (ret.op = "Delete" /\ ret.io /\ ret.err = "nil") =>
            /\ ~Exists(fs, metaPath(ret.path))
            /\ IsNotFound(LoadOf(Sidecar(ret.path)).err)

\* C8: Load(P) returns NotFound, and no record, both when P's sidecar file
\* has zero bytes and when it does not exist.
C8_EmptyPayloadNotFound ==
    (ret.op = "Load" /\ ret.io /\ ~ret.fault /\ ret.seen.kind \in {"none", "empty"}) =>
        (IsNotFound(ret.err) /\ ret.rec = EmptyRec)

\* A Load read a sidecar file of zero bytes.
C8_Witness ==
    ret.op = "Load" /\ ret.io /\ ~ret.fault /\ ret.seen.kind = "empty"

\* C9: Load(P) returns NotFound when P's sidecar decodes to a record with
\* all six fields absent.
C9_EmptyRecordNotFound ==
    (ret.op = "Load" /\ ret.io /\ ~ret.fault /\ ret.seen.kind = "json"
       /\ ~PosixAnyFieldSet(Unmarshal(ret.seen))) =>
        IsNotFound(ret.err)

\* C10: a Store operation that a primitive returned an I/O error to returns
\* that error.
C10_IOErrorsPropagate ==
    (ret.op # "none" /\ ret.fault) => ret.err = "EIO"

\* Two Saves were started and nothing else, both wrote and returned success,
\* and the second to return had read the payload the first had read.
TwoSavesOverlapped ==
    /\ nops = 2 /\ AllIdle /\ Len(saved) = 2
    /\ saved[2].seen = saved[1].seen

\* Field f was written by the first Save to return alone: the second did not
\* carry it and the record both had read did not have it.
WrittenByFirstOnly(f) ==
    /\ saved[1].m[f] # Nil
    /\ saved[2].m[f] = Nil
    /\ LoadOf(saved[1].seen).rec[f] = Nil

\* C11: a lost update. When two Saves on one path have both read the record
\* before either renamed and both return success, the persisted record lacks
\* every field that only the first to return wrote; such an interleaving exists
\* (C11_Witness).
C11_LostUpdate ==
    TwoSavesOverlapped =>
        \A f \in Fields :
            WrittenByFirstOnly(f) =>
                /\ Sidecar(<<"a">>).kind = "json"
                /\ Unmarshal(Sidecar(<<"a">>))[f] = Nil

\* Two Saves with disjoint fields met no I/O error, both returned success and
\* the persisted record has the fields of the second only.
C11_Witness ==
    /\ TwoSavesOverlapped /\ nfaults = 0
    /\ \E f \in Fields : WrittenByFirstOnly(f)
    /\ \A f \in Fields : saved[1].m[f] = Nil \/ saved[2].m[f] = Nil
    /\ Unmarshal(Sidecar(<<"a">>)) = Merge(LoadOf(saved[2].seen).rec, saved[2].m)

Queries == {"Attr", "Stat", "ReadDir", "Lstat"}

\* The attributes each Load of a query overlays: Attr, ReadDir and Lstat make
\* one Load; Stat makes one for uid and gid (setSys) and one for mode and
\* modification time.
Overlaid(op, i) ==
    CASE op = "Attr" -> {"mode", "uid", "gid", "atime", "mtime"}
      [] op = "Stat" /\ i = 1 -> {"uid", "gid"}
      [] op = "Stat" /\ i = 2 -> {"mode", "mtime"}
      [] OTHER -> {"uid", "gid"}

\* C12: an attribute query of the mount or the NFS front-end whose VFS stat
\* succeeded succeeds, whatever its Loads returned, and every attribute that
\* a failed Load would have overlaid is the base attribute; when every Load
\* failed, the attributes are the base attributes.
C12_ReadDegradesSilently ==
    (out.op \in Queries /\ out.raw = "nil") =>
        /\ out.err = "nil"
        /\ \A i \in DOMAIN out.lds :
             out.lds[i] # "nil" =>
                \A k \in Overlaid(out.op, i) : out.attrs[k] = out.base[k]
        /\ (\A i \in DOMAIN out.lds : out.lds[i] # "nil") => out.attrs = out.base

\* A Stat of a live object whose sidecar does not decode; its second Load met
\* an I/O error.
C12_Witness ==
    /\ out.op = "Stat" /\ out.err = "nil"
    /\ out.lds = <<"DecodeError", "EIO">>
    /\ out.attrs = out.base

Mutations == {"Chmod", "Chown", "Chtimes", "Rename", "Remove", "Setattr"}

\* C13: the error a mutation of the NFS or the mount front-end returns is the
\* error of its live change (Chmod's ENOSYS masked), whatever the Save, Rename
\* or Delete of the store returned after it, and no step of that store
\* operation changes a live object.
C13_PrimaryIndependentOfSidecar ==
    /\ []((out.op \in Mutations /\ out.stored) =>
             out.err = IF out.raw = "ENOSYS" THEN "nil" ELSE out.raw)
    /\ [][req.op # "none" => live' = live]_vars

\* A Chmod whose live change succeeded returned success though its Save
\* failed with an I/O error.
C13_Witness ==
    /\ out.op = "Chmod" /\ out.stored
    /\ out.serr = "EIO" /\ out.err = "nil"
    /\ ret.op = "Save" /\ ret.err = "EIO"

AttrMutations == {"Chmod", "Chown", "Chtimes", "Setattr"}

\* C14: when the live change of an attribute mutation (Truncate, SetModTime,
\* Chmod, Chown, Chtimes) returned an error, the front-end called no Save.
C14_LiveFirst ==
    (out.op \in AttrMutations /\ out.raw # "nil") => ~out.stored

\* The attribute k that the mount front-end's attribute query reports for p
\* in this state, when its Load meets no I/O error.
ReadBack(p, k) == AttrOverlay(BaseAttr(p), LoadOf(Sidecar(p)))[k]

\* The attribute is the one the request asked for: of a mode, the permission
\* bits (the twelve low bits).
AsAsked(k, got, want) ==
    IF k = "mode" THEN got.lo % 4096 = want.lo % 4096 ELSE got = want

\* C15: after an attribute mutation whose Save succeeded with no I/O error,
\* every field of the persisted record that the request did not specify has
\* the value it had, and every field it specified reads back through the
\* attribute query as the value asked for; a Chown with uid -1 leaves the
\* persisted uid as it was.
C15_OnlySpecifiedFields ==
    (out.op \in AttrMutations /\ out.stored /\ out.serr = "nil" /\ ~ret.fault) =>
        /\ \A f \in Fields \ out.given :
             Unmarshal(Sidecar(out.path))[f] = LoadOf(ret.seen).rec[f]
        /\ \A k \in out.given :
             AsAsked(k, ReadBack(out.path, k), out.want[k])

\* What the generic Load returns for a payload b when ReadFile meets no I/O
\* error.
GenericLoadOf(b) ==
    IF b = NoFile THEN [rec |-> EmptyRec, err |-> "ENOENT"]
    ELSE IF b.kind # "json" THEN [rec |-> EmptyRec, err |-> "DecodeError"]
    ELSE [rec |-> Unmarshal(b), err |-> "nil"]

\* C16: after a Save(P, M) of the generic store returns success, whatever
\* record an earlier Save had put there, Load(P) succeeds and returns exactly
\* M: no field of the earlier record remains.
C16_WholeRecordReplace ==
    (ret.op = "GenericSave" /\ ret.err = "nil") =>
        GenericLoadOf(ContentAt(fs, name(ret.path))) = [rec |-> ret.m, err |-> "nil"]

\* The second of two Saves on one path succeeded; the record of the first had
\* a field that the second's record has not, and the second's record is not
\* empty.
C16_Witness ==
    /\ ret.op = "GenericSave" /\ ret.err = "nil" /\ nops = 2
    /\ ret.seen.kind = "json"
    /\ PosixAnyFieldSet(ret.m)
    /\ \E f \in Fields : Unmarshal(ret.seen)[f] # Nil /\ ret.m[f] = Nil

\* What FS.Stat reports for the live object p in this state, when its Loads
\* meet no I/O error.
StatView(p) ==
    LET ld == IF IsSidecarPath(p) THEN [rec |-> EmptyRec, err |-> "skipped"]
                                  ELSE LoadOf(Sidecar(p))
    IN  withOverlayFileInfo(setSys(BaseInfo(p), ld), ld)

\* C17: the uid, gid, mode and modification time that ReadDir and Lstat report
\* for an entry are those that Stat reports for the same path in the same
\* state, whatever record is persisted for it.
C17_ListingAgreesWithStat ==
    (out.op \in {"ReadDir", "Lstat"} /\ out.raw = "nil" /\ out.lds # <<"EIO">>) =>
        \A k \in {"uid", "gid", "mode", "mtime"} :
            out.attrs[k] = StatView(out.path)[k]

\* The mode the codec was given a permission value for: the value with the
\* file-type nibble of a directory or of a regular file.
Typed(perm, isDir) == perm + (IF isDir THEN S_IFDIR ELSE S_IFREG)

SameLoad(x, y) == x = y \/ (IsNotFound(x.err) /\ IsNotFound(y.err))

\* C19: after Rename(P, Q) of non-sidecar paths returns success, having met no
\* I/O error, Load(Q) returns what Load(P) returned before the Rename, NotFound
\* when P had no sidecar, and Load(P) returns NotFound.
C19_RenameCarriesOverlay ==
    (ret.op = "Rename" /\ ret.io /\ ret.err = "nil" /\ ~ret.fault) =>
        /\ SameLoad(LoadOf(Sidecar(ret.newPath)), LoadOf(ret.seen))
        /\ IsNotFound(LoadOf(Sidecar(ret.path)).err)

\* C20: when Save(P, M) returns, with success or with an error, every file
\* other than P's sidecar file exists or not as it did when the Save started
\* and has the content it had: the tracked objects, the one named P's sidecar
\* path followed by ".tmp" included, and the sidecars of other paths.
C20_FrameOfSave ==
    (ret.op = "Save" /\ ret.io) =>
        \A q \in (DOMAIN fs \cup DOMAIN before) \ {metaPath(ret.path)} :
            ContentAt(fs, q) = ContentAt(before, q)

\* C21: the mode that File.Attr and FS.Stat report after the overlay is the
\* mode of a directory exactly when the mode of the live object is: the
\* persisted modes are those FormatPosixMode encoded, for Setattr and Chmod
\* with isDirectory false, and a directory with a persisted mode is still
\* reported as a directory.
C21_OverlayKeepsKind ==
    (out.op \in {"Attr", "Stat"} /\ out.raw = "nil" /\ out.err = "nil") =>
        (IsDir(out.attrs.mode) <=> IsDir(out.base.mode))

\* The string of a persisted field decodes: a mode with strconv.ParseUint base
\* 8, a uid or gid with strconv.ParseUint base 10 in 32 bits, a time with
\* time.Parse of RFC3339.
IsRFC3339(s) ==
    /\ Len(s) >= 3 /\ Len(s) <= 11 /\ s[1] = "T" /\ s[Len(s)] = "Z"
    /\ \A i \in 2..(Len(s) - 1) : IsDigit(s[i], 10)

Decodes(k, s) ==
    CASE k = "mode" -> ParseOctal(s).ok
      [] k \in {"uid", "gid"} -> ParseDecimal(s).ok
      [] OTHER -> IsRFC3339(s)

\* The attributes a query overlays from the record.
OverlaidBy(op) ==
    IF op = "Attr" THEN {"mode", "uid", "gid", "atime", "mtime"}
                   ELSE {"mode", "uid", "gid", "mtime"}

\* The field k of the record persisted for p is present and does not decode.
Undecodable(p, k) ==
    /\ ~IsSidecarPath(p)
    /\ LoadOf(Sidecar(p)).err = "nil"
    /\ LoadOf(Sidecar(p)).rec[k] # Nil
    /\ ~Decodes(k, LoadOf(Sidecar(p)).rec[k])

\* C22: File.Attr and FS.Stat of an object whose persisted record has a field
\* that is present but does not decode (a mode that is not octal, a uid or gid
\* that is not decimal or is out of range, an atime or mtime that is not
\* RFC3339) succeed and report the base value of that attribute, as if the
\* field were absent; a corrupt mode gives the base mode, not mode 0.
C22_UndecodableIsAbsent ==
    (out.op \in {"Attr", "Stat"} /\ out.raw = "nil") =>
        /\ out.err = "nil"
        /\ \A k \in OverlaidBy(out.op) :
             Undecodable(out.path, k) => out.attrs[k] = out.base[k]

====
